---- MODULE Spec2Model ----
(***************************************************************************)
(* Two independent request chains of the repository:                       *)
(*   - the FileUpload widget (handleFileChange and the rendered controls), *)
(*   - the analyze-video edge function (the handler passed to serve).      *)
(* Each awaited network call is a suspension point: the part of the code   *)
(* that runs from one await to the next is one action.                     *)
(***************************************************************************)
EXTENDS Integers, Sequences, FiniteSets, TLC

\* ------------------------------------------------------------------ bounds
\* change events delivered to the file input in one behaviour
MaxInvocations == 2
\* largest value of the wall clock (new Date().getTime())
MaxTime == 1
\* requests served by the edge function in one behaviour
MaxRequests == 2

\* ------------------------------------------------------- shared JS values
\* the value of an absent error, and of a promise that has not thrown
NoError == [none |-> TRUE]
\* null / undefined where an object was expected
NoData == [z \in {} |-> z]

Has(obj, field) == field \in DOMAIN obj
\* JS truthiness of obj?.field for a string field
Truthy(obj, field) == Has(obj, field) /\ obj[field] # ""
\* obj.field, undefined when absent
Get(obj, field) == IF Has(obj, field) THEN obj[field] ELSE "undefined"

Ev(op, arg) == [op |-> op, arg |-> arg]
Ops(log) == [k \in 1..Len(log) |-> log[k].op]
Count(log, op) == Cardinality({k \in 1..Len(log) : log[k].op = op})
\* index of the first event named op, 0 when there is none
First(log, op) ==
    IF Count(log, op) = 0 THEN 0
    ELSE CHOOSE k \in 1..Len(log) :
            /\ log[k].op = op
            /\ \A j \in 1..(k - 1) : log[j].op # op

(***************************************************************************)
(*                         The FileUpload widget                           *)
(***************************************************************************)
VARIABLES
    uploading,   \* useState(false): the busy flag
    pickerOpen,  \* the browser's file chooser opened by input.click()
    now,         \* wall clock read by new Date().getTime()
    nInv,        \* handleFileChange invocations so far
    chain        \* per invocation: position, file path, events in order

wvars == <<uploading, pickerOpen, now, nInv, chain>>

\* the analyze-video edge function
VARIABLES
    hpc,         \* position of the invocation being served
    req,         \* the request being served
    hlog,        \* the invocation's parse, external calls, results, responses
    resp,        \* the Response the invocation returned
    transcript,  \* const { text: transcript }
    analysis,    \* const analysis
    db,          \* the applications table
    nReq         \* requests received so far

hvars == <<hpc, req, hlog, resp, transcript, analysis, db, nReq>>
vars == <<wvars, hvars>>

\* highest code unit kept by /[^\x00-\x7F]/g
MaxAscii == 127

\* file names as UTF-16 code units: "jd", and "j" + e-acute + "d"
FileNames == {<<106, 100>>, <<106, 233, 100>>}
\* event.target.files: empty, or holding the file chosen
FileLists == {<<>>} \cup {<<f>> : f \in FileNames}

UploadErrors == {NoError, [message |-> "upload failed"]}

\* data of supabase.functions.invoke on success
InvokeData ==
    { NoData,
      [title |-> "T"],
      [title |-> "T", description |-> ""],
      [title |-> "T", description |-> "JD"],
      [title |-> "T", description |-> "JD", good_candidate_attributes |-> "g",
       bad_candidate_attributes |-> "b", essential_attributes |-> <<"e1", "e2">>] }
InvokeResults ==
    {[data |-> d, error |-> NoError] : d \in InvokeData}
        \cup {[data |-> NoData, error |-> [message |-> "function failed"]]}

\* what the caller's onProcessed does: returns, or throws
CallbackOutcomes == {NoError, [message |-> "callback failed"]}

IdleChain == [pc |-> "idle", path |-> <<>>, log |-> <<>>]

\* file.name.replace(/[^\x00-\x7F]/g, '')
Sanitize(name) == SelectSeq(name, LAMBDA c : c <= MaxAscii)

\* `job-documents/${timestamp}_${sanitizedFileName}`
FilePath(timestamp, name) == <<"job-documents/", timestamp, "_", Sanitize(name)>>

\* if (!file) return;
NoFile(files) == Len(files) = 0

\* variant: the throw on uploadError left out
UploadFailed_Ignored(err) == FALSE
\* if (uploadError) throw uploadError;
UploadFailed(err) == err # NoError

\* variant: the description test left out
DescriptionMissing_Unchecked(data) == FALSE
\* if (!data?.description) throw ...
DescriptionMissing(data) == ~Truthy(data, "description")

\* the object handed to onProcessed
ProcessedArgs(data) ==
    [ title |-> Get(data, "title"),
      description |-> Get(data, "description"),
      good_candidate_attributes |-> Get(data, "good_candidate_attributes"),
      bad_candidate_attributes |-> Get(data, "bad_candidate_attributes"),
      essential_attributes |->
          IF Has(data, "essential_attributes") THEN data.essential_attributes
          ELSE <<>> ]

ErrorToast(err) ==
    Ev("toast", [title |-> "Error", description |-> err.message,
                 variant |-> "destructive"])
SuccessToast ==
    Ev("toast", [title |-> "Success",
                 description |-> "Job description processed successfully",
                 variant |-> "default"])

\* variant: setUploading(false) at the end of try instead of in finally
FlagAfter_OnlyOnSuccess(failed, flag) == IF failed THEN flag ELSE FALSE
\* finally { setUploading(false) }: the flag after the chain, on either path
FlagAfter(failed, flag) == FALSE

\* variant: the Button without its disabled attribute
ButtonDisabled_Never == FALSE
\* <Button disabled={uploading}>
ButtonDisabled == uploading

\* the events of catch (when err is an error) and finally, in order
Cleanup(err) ==
    (IF err = NoError THEN <<>> ELSE <<ErrorToast(err)>>)
        \o <<Ev("setUploading", <<uploading, FlagAfter(err # NoError, uploading)>>)>>

Finish(i, events, err) ==
    /\ chain' = [chain EXCEPT ![i].pc = "done",
                              ![i].log = @ \o events \o Cleanup(err)]
    /\ uploading' = FlagAfter(err # NoError, uploading)

\* onClick={() => document.getElementById('file-upload')?.click()}: a click
\* on the enabled Button asks for the input's file chooser; an input has one
\* chooser at a time, so a click while it is open leaves that one open
ClickButton ==
    /\ ~ButtonDisabled
    /\ pickerOpen' = TRUE
    /\ UNCHANGED <<uploading, now, nInv, chain>>
    /\ UNCHANGED hvars

\* the user dismisses the chooser: no change event
CancelPicker ==
    /\ pickerOpen
    /\ pickerOpen' = FALSE
    /\ UNCHANGED <<uploading, now, nInv, chain>>
    /\ UNCHANGED hvars

\* handleFileChange up to its first await
HandleFileChange(files, timestamp) ==
    /\ pickerOpen
    /\ nInv < MaxInvocations
    /\ pickerOpen' = FALSE
    /\ nInv' = nInv + 1
    /\ UNCHANGED hvars
    /\ IF NoFile(files)
       THEN /\ chain' = [chain EXCEPT ![nInv + 1].pc = "done"]
            /\ UNCHANGED <<uploading, now>>
       ELSE /\ uploading' = TRUE
            /\ now' = timestamp
            /\ chain' = [chain EXCEPT ![nInv + 1] =
                   [ pc |-> "awaitUpload",
                     path |-> FilePath(timestamp, files[1]),
                     log |-> << Ev("setUploading", <<uploading, TRUE>>),
                                Ev("upload", [bucket |-> "job-documents",
                                              path |-> FilePath(timestamp, files[1]),
                                              file |-> files[1]]) >> ]]

\* the upload promise settles; the chain runs to its next await or to its end
UploadReturns(i, err) ==
    /\ chain[i].pc = "awaitUpload"
    /\ IF UploadFailed(err)
       THEN Finish(i, <<Ev("uploadDone", err)>>, err)
       ELSE /\ chain' = [chain EXCEPT
                   ![i].pc = "awaitInvoke",
                   ![i].log = @ \o << Ev("uploadDone", err),
                                      Ev("invoke", [fn |-> "process-job-document",
                                                    body |-> [filePath |-> chain[i].path]]) >>]
            /\ UNCHANGED uploading
    /\ UNCHANGED <<pickerOpen, now, nInv>>
    /\ UNCHANGED hvars

\* the invoke promise settles; the chain runs to its end
InvokeReturns(i, res, cb) ==
    /\ chain[i].pc = "awaitInvoke"
    /\ IF res.error # NoError
       THEN Finish(i, <<Ev("invokeDone", res)>>, res.error)
       ELSE IF DescriptionMissing(res.data)
       THEN Finish(i, <<Ev("invokeDone", res)>>,
                   [message |-> "No content extracted from document"])
       ELSE IF cb # NoError
       THEN Finish(i, <<Ev("invokeDone", res),
                        Ev("onProcessed", ProcessedArgs(res.data))>>, cb)
       ELSE Finish(i, <<Ev("invokeDone", res),
                        Ev("onProcessed", ProcessedArgs(res.data)),
                        SuccessToast>>, NoError)
    /\ UNCHANGED <<pickerOpen, now, nInv>>
    /\ UNCHANGED hvars

WInit ==
    /\ uploading = FALSE
    /\ pickerOpen = FALSE
    /\ now = 0
    /\ nInv = 0
    /\ chain = [i \in 1..MaxInvocations |-> IdleChain]

WNext ==
    \/ ClickButton
    \/ CancelPicker
    \/ \E files \in FileLists, t \in now..MaxTime : HandleFileChange(files, t)
    \/ \E i \in 1..MaxInvocations, err \in UploadErrors : UploadReturns(i, err)
    \/ \E i \in 1..MaxInvocations, res \in InvokeResults, cb \in CallbackOutcomes :
           InvokeReturns(i, res, cb)

(***************************************************************************)
(*                     The analyze-video edge function                     *)
(***************************************************************************)
\* status of a Response constructed without one
DefaultStatus == 200
\* status: 500 of the catch block's Response
ErrorStatus == 500

JsNull == [null |-> TRUE]
JsString(s) == [str |-> s]

corsHeaders ==
    ("Access-Control-Allow-Origin" :> "*")
        @@ ("Access-Control-Allow-Headers"
                :> "authorization, x-client-info, apikey, content-type")

\* { ...corsHeaders, 'Content-Type': 'application/json' }
JsonHeaders == ("Content-Type" :> "application/json") @@ corsHeaders

\* JSON.stringify of a string, and of a string-or-null
Quote(s) == "\"" \o s \o "\""
Encode(v) == IF Has(v, "str") THEN Quote(v.str) ELSE "null"
\* JSON.stringify({ transcript, analysis }) as its tokens
StringifyResult(t, a) ==
    <<"{", Quote("transcript"), ":", Quote(t), ",", Quote("analysis"), ":", Encode(a), "}">>
\* JSON.stringify({ error: message }) as its tokens
StringifyError(message) == <<"{", Quote("error"), ":", Quote(message), "}">>

Methods == {"OPTIONS", "POST", "GET"}
\* what await req.json() meets: no or malformed JSON, the JSON null, an object
Bodies ==
    { [kind |-> "malformed"],
      [kind |-> "null"],
      [kind |-> "object", json |-> NoData],
      [kind |-> "object", json |-> [applicationId |-> "a1"]],
      [kind |-> "object", json |-> [videoPath |-> "v1.webm"]],
      [kind |-> "object", json |-> [applicationId |-> "", videoPath |-> "v1.webm"]],
      [kind |-> "object", json |-> [applicationId |-> "a1", videoPath |-> "v1.webm"]],
      [kind |-> "object", json |-> [applicationId |-> "a2", videoPath |-> "v2.webm"]] }

DownloadResults ==
    { [data |-> [bytes |-> "webm"], error |-> NoError],
      [data |-> NoData, error |-> NoError],
      [data |-> NoData, error |-> [message |-> "Object not found"]] }

\* fetch rejects, answers non-2xx with a body text, or answers 2xx with JSON
TranscriptionResults ==
    { [kind |-> "rejected", message |-> "network error"],
      [kind |-> "http", ok |-> FALSE, text |-> "quota exceeded"],
      [kind |-> "http", ok |-> TRUE, json |-> NoData],
      [kind |-> "http", ok |-> TRUE, json |-> [text |-> ""]],
      [kind |-> "http", ok |-> TRUE, json |-> [text |-> "hello"]] }

\* the client throws an Error, throws something else, or returns choices
CompletionResults ==
    { [kind |-> "throws", error |-> [isError |-> TRUE, message |-> "rate limited"]],
      [kind |-> "throws", error |-> [isError |-> FALSE, message |-> "undefined"]],
      [kind |-> "ok", choices |-> <<>>],
      [kind |-> "ok", choices |-> <<[message |-> [content |-> JsNull]]>>],
      [kind |-> "ok", choices |-> <<[message |-> [content |-> JsString("{}")]]>>] }

UpdateErrors == {NoError, [message |-> "write failed"]}

NoResponse == [none |-> TRUE]
NoRequest == [none |-> TRUE]
InitialRow == [video_transcript |-> JsNull, video_analysis |-> JsNull,
               status |-> "submitted"]

JsError(message) == [isError |-> TRUE, message |-> message]

\* variant: the OPTIONS branch left out
IsPreflight_Never(method) == FALSE
\* if (req.method === 'OPTIONS')
IsPreflight(method) == method = "OPTIONS"

\* new Response(null, { headers: corsHeaders })
PreflightResponse == [status |-> DefaultStatus, body |-> <<>>, headers |-> corsHeaders]

\* variant: only applicationId is required
MissingParams_OnlyId(json) == ~Truthy(json, "applicationId")
\* if (!applicationId || !videoPath)
MissingParams(json) == ~Truthy(json, "applicationId") \/ ~Truthy(json, "videoPath")

\* variant: the test for absent data left out
NoVideoData_Unchecked(data) == FALSE
\* if (!videoData)
NoVideoData(data) == data = NoData

\* variant: an empty text is let through
TranscriptMissing_OnlyAbsent(json) == ~Has(json, "text")
\* if (!transcript)
TranscriptMissing(json) == ~Truthy(json, "text")

\* variant: the update's error is not looked at
UpdateFailed_Ignored(err) == FALSE
\* if (updateError)
UpdateFailed(err) == err # NoError

\* .update({ video_transcript, video_analysis, status }).eq('id', applicationId)
UpdateCall(id, t, a) ==
    [ table |-> "applications",
      set |-> [video_transcript |-> JsString(t), video_analysis |-> a,
               status |-> "video_analyzed"],
      eq |-> [id |-> id] ]

\* the table after the update has been applied to the rows it matches
ApplyUpdate(rows, call) ==
    [r \in DOMAIN rows |-> IF r = call.eq.id THEN call.set ELSE rows[r]]

\* the Response of the success path
SuccessResponse(t, a) ==
    [status |-> DefaultStatus, body |-> StringifyResult(t, a), headers |-> JsonHeaders]

\* error instanceof Error ? error.message : 'Unknown error occurred'
ErrorMessage(err) == IF err.isError THEN err.message ELSE "Unknown error occurred"

\* variant: the error Response without the spread of corsHeaders
ErrorResponse_NoCors(err) ==
    [status |-> ErrorStatus, body |-> StringifyError(ErrorMessage(err)),
     headers |-> ("Content-Type" :> "application/json")]
\* the Response of the catch block
ErrorResponse(err) ==
    [status |-> ErrorStatus, body |-> StringifyError(ErrorMessage(err)),
     headers |-> JsonHeaders]

\* the catch block after the events in log: log the error, return the Response
Fail(log, err) ==
    /\ hlog' = log \o <<Ev("console.error", err), Ev("respond", ErrorResponse(err))>>
    /\ resp' = ErrorResponse(err)
    /\ hpc' = "responded"

\* a request arrives; the handler runs to its first awaited call or to its end
Receive(method, body) ==
    /\ hpc \in {"idle", "responded"}
    /\ nReq < MaxRequests
    /\ nReq' = nReq + 1
    /\ req' = [method |-> method, body |-> body]
    /\ transcript' = ""
    /\ analysis' = JsNull
    /\ UNCHANGED db
    /\ UNCHANGED wvars
    /\ IF IsPreflight(method)
       THEN /\ hlog' = <<Ev("respond", PreflightResponse)>>
            /\ resp' = PreflightResponse
            /\ hpc' = "responded"
       ELSE LET parsed == <<Ev("json", body)>> IN
            IF body.kind = "malformed"
            THEN Fail(parsed, JsError("Unexpected end of JSON input"))
            ELSE IF body.kind = "null"
            THEN Fail(parsed, JsError("Cannot destructure property of null"))
            ELSE IF MissingParams(body.json)
            THEN Fail(parsed,
                      JsError("Missing required parameters: applicationId or videoPath"))
            ELSE /\ hlog' = parsed \o <<Ev("download", [bucket |-> "applications",
                                                        path |-> Get(body.json, "videoPath")])>>
                 /\ resp' = NoResponse
                 /\ hpc' = "awaitDownload"

\* the download settles; on data the handler posts it to the transcription API
DownloadReturns(res) ==
    /\ hpc = "awaitDownload"
    /\ LET log == hlog \o <<Ev("downloadDone", res)>> IN
       IF res.error # NoError
       THEN Fail(log, JsError("Failed to download video: " \o res.error.message))
       ELSE IF NoVideoData(res.data)
       THEN Fail(log, JsError("No video data received from storage"))
       ELSE /\ hlog' = log \o <<Ev("transcribe", [file |-> res.data,
                                                  type |-> "video/webm",
                                                  model |-> "whisper-1"])>>
            /\ hpc' = "awaitTranscription"
            /\ UNCHANGED resp
    /\ UNCHANGED <<req, transcript, analysis, db, nReq>>
    /\ UNCHANGED wvars

\* the transcription request settles; on text the handler asks for the analysis
TranscriptionReturns(res) ==
    /\ hpc = "awaitTranscription"
    /\ LET log == hlog \o <<Ev("transcribeDone", res)>> IN
       IF res.kind = "rejected"
       THEN Fail(log, JsError(res.message)) /\ UNCHANGED transcript
       ELSE IF ~res.ok
       THEN /\ Fail(log \o <<Ev("console.error", JsError(res.text))>>,
                    JsError("OpenAI Whisper API error: " \o res.text))
            /\ UNCHANGED transcript
       ELSE IF TranscriptMissing(res.json)
       THEN /\ Fail(log, JsError("No transcript received from OpenAI"))
            /\ UNCHANGED transcript
       ELSE /\ transcript' = res.json.text
            /\ hlog' = log \o <<Ev("complete", [model |-> "gpt-4o-mini",
                                                user |-> Get(res.json, "text")])>>
            /\ hpc' = "awaitCompletion"
            /\ UNCHANGED resp
    /\ UNCHANGED <<req, analysis, db, nReq>>
    /\ UNCHANGED wvars

\* the completion settles; on a choice the handler issues the table update
CompletionReturns(res) ==
    /\ hpc = "awaitCompletion"
    /\ LET log == hlog \o <<Ev("completeDone", res)>> IN
       IF res.kind = "throws"
       THEN Fail(log, res.error) /\ UNCHANGED analysis
       ELSE IF Len(res.choices) = 0
       THEN /\ Fail(log, JsError("Cannot read properties of undefined"))
            /\ UNCHANGED analysis
       ELSE /\ analysis' = res.choices[1].message.content
            /\ hlog' = log \o <<Ev("update",
                   UpdateCall(req.body.json.applicationId, transcript,
                              res.choices[1].message.content))>>
            /\ hpc' = "awaitUpdate"
            /\ UNCHANGED resp
    /\ UNCHANGED <<req, transcript, db, nReq>>
    /\ UNCHANGED wvars

\* the update settles; without an error the handler answers with both values
UpdateReturns(err) ==
    /\ hpc = "awaitUpdate"
    /\ LET log == hlog \o <<Ev("updateDone", err)>>
           call == hlog[Len(hlog)].arg IN
       /\ db' = IF err = NoError THEN ApplyUpdate(db, call) ELSE db
       /\ IF UpdateFailed(err)
          THEN Fail(log \o <<Ev("console.error", err)>>,
                    JsError("Failed to update application: " \o Get(err, "message")))
          ELSE /\ hlog' = log \o <<Ev("respond", SuccessResponse(transcript, analysis))>>
               /\ resp' = SuccessResponse(transcript, analysis)
               /\ hpc' = "responded"
    /\ UNCHANGED <<req, transcript, analysis, nReq>>
    /\ UNCHANGED wvars

HInit ==
    /\ hpc = "idle"
    /\ req = NoRequest
    /\ hlog = <<>>
    /\ resp = NoResponse
    /\ transcript = ""
    /\ analysis = JsNull
    /\ db = [r \in {"a1"} |-> InitialRow]
    /\ nReq = 0

HNext ==
    \/ \E method \in Methods, body \in Bodies : Receive(method, body)
    \/ \E res \in DownloadResults : DownloadReturns(res)
    \/ \E res \in TranscriptionResults : TranscriptionReturns(res)
    \/ \E res \in CompletionResults : CompletionReturns(res)
    \/ \E err \in UpdateErrors : UpdateReturns(err)

Init == WInit /\ HInit

WidgetSpec == Init /\ [][WNext]_vars
HandlerSpec == Init /\ [][HNext]_vars

\* every awaited call of the widget settles
WidgetFairSpec ==
    /\ WidgetSpec
    /\ WF_vars(\E i \in 1..MaxInvocations, err \in UploadErrors : UploadReturns(i, err))
    /\ WF_vars(\E i \in 1..MaxInvocations, res \in InvokeResults, cb \in CallbackOutcomes :
                   InvokeReturns(i, res, cb))

\* ------------------------------------------------------- widget properties
Started(i) == chain[i].log # <<>>
InFlight == {i \in 1..MaxInvocations : chain[i].pc \in {"awaitUpload", "awaitInvoke"}}
Args(log, op) == [k \in 1..Len(SelectSeq(log, LAMBDA e : e.op = op)) |->
                     SelectSeq(log, LAMBDA e : e.op = op)[k].arg]
UploadOk(log) == \E k \in 1..Len(log) : log[k].op = "uploadDone" /\ log[k].arg = NoError
UploadErr(log) == \E k \in 1..Len(log) : log[k].op = "uploadDone" /\ log[k].arg # NoError
InvokeErr(log) ==
    \E k \in 1..Len(log) : log[k].op = "invokeDone" /\ log[k].arg.error # NoError
InvokeNoDescription(log) ==
    \E k \in 1..Len(log) :
        /\ log[k].op = "invokeDone"
        /\ log[k].arg.error = NoError
        /\ ~Truthy(log[k].arg.data, "description")
InvokeGood(log) ==
    \E k \in 1..Len(log) :
        /\ log[k].op = "invokeDone"
        /\ log[k].arg.error = NoError
        /\ Truthy(log[k].arg.data, "description")
HasErrorToast(log) ==
    \E k \in 1..Len(log) : log[k].op = "toast" /\ log[k].arg.variant = "destructive"
HasSuccessToast(log) ==
    \E k \in 1..Len(log) : log[k].op = "toast" /\ log[k].arg.title = "Success"

\* C1: every invocation that got a file calls storage upload exactly once and
\* the 'process-job-document' invocation at most once; the invocation comes
\* after the upload has completed, carries the uploaded path, and is issued
\* if and only if the upload returned no error.
C1_UploadThenInvoke ==
    \A i \in 1..MaxInvocations :
        Started(i) =>
            LET log == chain[i].log IN
            /\ Count(log, "upload") = 1
            /\ Count(log, "invoke") <= 1
            /\ Count(log, "uploadDone") <= 1
            /\ (Count(log, "invoke") = 1) <=> UploadOk(log)
            /\ Count(log, "invoke") = 1 =>
                  /\ First(log, "upload") < First(log, "uploadDone")
                  /\ First(log, "uploadDone") < First(log, "invoke")
                  /\ log[First(log, "invoke")].arg.body.filePath
                         = log[First(log, "upload")].arg.path
            /\ chain[i].pc = "done" => Count(log, "uploadDone") = 1

\* one finished invocation whose upload failed (no invoke) next to one whose
\* upload succeeded (one invoke)
C1_Witness ==
    \E i, j \in 1..MaxInvocations :
        /\ chain[i].pc = "done" /\ UploadErr(chain[i].log)
        /\ Count(chain[i].log, "invoke") = 0
        /\ chain[j].pc = "done" /\ UploadOk(chain[j].log)
        /\ Count(chain[j].log, "invoke") = 1

\* C2: a storage error, an invocation error or a response without a non-empty
\* description ends the chain there with a destructive toast and without a
\* call of onProcessed; onProcessed is called at most once, only after the
\* upload and the invocation succeeded with a non-empty description, and with
\* that description.
C2_FailureAborts ==
    \A i \in 1..MaxInvocations :
        LET log == chain[i].log IN
        /\ Count(log, "onProcessed") <= 1
        /\ Count(log, "onProcessed") = 1 =>
              /\ UploadOk(log)
              /\ InvokeGood(log)
              /\ First(log, "invokeDone") < First(log, "onProcessed")
              /\ log[First(log, "onProcessed")].arg.description
                     = log[First(log, "invokeDone")].arg.data.description
        /\ (UploadErr(log) \/ InvokeErr(log) \/ InvokeNoDescription(log)) =>
              /\ chain[i].pc = "done"
              /\ Count(log, "onProcessed") = 0
              /\ HasErrorToast(log)
              /\ ~HasSuccessToast(log)
        /\ UploadErr(log) => Count(log, "invoke") = 0

\* a finished invocation whose response carried an empty description
C2_Witness ==
    \E i \in 1..MaxInvocations :
        /\ chain[i].pc = "done"
        /\ InvokeNoDescription(chain[i].log)
        /\ Has(chain[i].log[First(chain[i].log, "invokeDone")].arg.data, "description")
        /\ HasErrorToast(chain[i].log)

FlagSteps(i) == Args(chain[i].log, "setUploading")

C3_FlagShape ==
    \A i \in 1..MaxInvocations :
        /\ chain[i].pc \in {"awaitUpload", "awaitInvoke"} =>
              FlagSteps(i) = << <<FALSE, TRUE>> >>
        /\ (chain[i].pc = "done" /\ Started(i)) =>
              FlagSteps(i) = << <<FALSE, TRUE>>, <<TRUE, FALSE>> >>

\* C3: an invocation that got a file moves the busy flag false -> true once
\* and true -> false once, in that order, on every path (success, upload
\* error, invocation error, missing description, onProcessed throwing), and
\* every invocation that set the flag eventually resets it.
C3_BusyFlagOncePerInvocation ==
    /\ []C3_FlagShape
    /\ \A i \in 1..MaxInvocations :
           (chain[i].pc \in {"awaitUpload", "awaitInvoke"}) ~> (chain[i].pc = "done")

\* a finished invocation in which onProcessed threw, the flag back to false
C3_Witness ==
    \E i \in 1..MaxInvocations :
        /\ chain[i].pc = "done"
        /\ Count(chain[i].log, "onProcessed") = 1
        /\ HasErrorToast(chain[i].log)
        /\ FlagSteps(i) = << <<FALSE, TRUE>>, <<TRUE, FALSE>> >>
        /\ ~uploading

\* C10: whatever the order of clicks, chooser results and settling calls, at
\* most one upload/invoke chain is in flight at a time, and the flag is true
\* (the Button disabled) in every state in which a chain is in flight; the
\* flag is false only when no chain remains in flight.
C10_OneChainInFlight ==
    /\ Cardinality(InFlight) <= 1
    /\ InFlight # {} => uploading
    /\ ~uploading => InFlight = {}

\* a second chain in flight after an earlier one has finished
C10_Witness ==
    \E i, j \in 1..MaxInvocations :
        /\ chain[i].pc = "done" /\ Started(i)
        /\ chain[j].pc = "awaitInvoke"
        /\ uploading

\* ------------------------------------------------------ handler properties
Seen(op) == Count(hlog, op) > 0
ArgOf(op) == hlog[First(hlog, op)].arg
Responded == hpc = "responded"
CallOps == {"download", "transcribe", "complete", "update"}
DoneOps == {"downloadDone", "transcribeDone", "completeDone", "updateDone"}

DownloadGaveNothing ==
    Seen("downloadDone")
        /\ (ArgOf("downloadDone").error # NoError \/ ArgOf("downloadDone").data = NoData)
TranscriptionGaveNoText ==
    /\ Seen("transcribeDone")
    /\ ArgOf("transcribeDone").kind = "http"
    /\ ArgOf("transcribeDone").ok
    /\ ~Truthy(ArgOf("transcribeDone").json, "text")
HasCors(headers) ==
    /\ {"Access-Control-Allow-Origin", "Access-Control-Allow-Headers"} \subseteq DOMAIN headers
    /\ headers["Access-Control-Allow-Origin"] = "*"
    /\ headers["Access-Control-Allow-Headers"]
           = "authorization, x-client-info, apikey, content-type"
IsErrorBody(body) ==
    /\ Len(body) = 5
    /\ body[1] = "{" /\ body[2] = "\"error\"" /\ body[3] = ":" /\ body[5] = "}"
    /\ body[4] \in STRING

\* C4: when the download returns an error or no data, the invocation ends
\* with a 500 response and calls neither the transcription endpoint, nor the
\* completion endpoint, nor the table update.
C4_NoDataNoTranscription ==
    DownloadGaveNothing =>
        /\ Responded
        /\ resp.status = 500
        /\ ~Seen("transcribe") /\ ~Seen("complete") /\ ~Seen("update")

\* the download returned neither an error nor data, and the handler answered
C4_Witness ==
    /\ Seen("downloadDone")
    /\ ArgOf("downloadDone").error = NoError
    /\ ArgOf("downloadDone").data = NoData
    /\ Responded /\ resp.status = 500

\* C5: when the transcription response is a success without text (absent or
\* empty), the invocation ends with a 500 response and calls neither the
\* completion endpoint nor the table update.
C5_NoTextNoCompletion ==
    TranscriptionGaveNoText =>
        /\ Responded
        /\ resp.status = 500
        /\ ~Seen("complete") /\ ~Seen("update")

\* the transcription response carried an empty text, and the handler answered
C5_Witness ==
    /\ TranscriptionGaveNoText
    /\ Has(ArgOf("transcribeDone").json, "text")
    /\ Responded /\ resp.status = 500

FullSuccess ==
    /\ Seen("completeDone")
    /\ ArgOf("completeDone").kind = "ok"
    /\ Len(ArgOf("completeDone").choices) > 0
    /\ Seen("updateDone")
    /\ ArgOf("updateDone") = NoError
UpdateAndEcho ==
    LET text == ArgOf("transcribeDone").json.text
        content == ArgOf("completeDone").choices[1].message.content
        id == req.body.json.applicationId IN
    /\ Count(hlog, "update") = 1
    /\ ArgOf("update").eq = [id |-> id]
    /\ ArgOf("update").set.video_transcript = JsString(text)
    /\ ArgOf("update").set.video_analysis = content
    /\ Seen("updateDone") /\ ArgOf("updateDone") = NoError
    /\ First(hlog, "updateDone") < First(hlog, "respond")
    /\ id \in DOMAIN db =>
          /\ db[id].video_transcript = JsString(text)
          /\ db[id].video_analysis = content
    /\ resp.status = 200
    /\ Len(resp.body) = 9
    /\ resp.body[2] = "\"transcript\"" /\ resp.body[4] = "\"" \o text \o "\""
    /\ resp.body[6] = "\"analysis\""
    /\ resp.body[8] = (IF content = JsNull THEN "null" ELSE "\"" \o content.str \o "\"")

C7_PreflightOnlyHeaders ==
    (req # NoRequest /\ req.method = "OPTIONS") =>
        /\ Responded
        /\ resp.body = <<>>
        /\ HasCors(resp.headers)
        /\ DOMAIN resp.headers
               = {"Access-Control-Allow-Origin", "Access-Control-Allow-Headers"}
        /\ Ops(hlog) = <<"respond">>

\* a pre-flight request carrying a complete workflow body
C7_Witness ==
    /\ req # NoRequest /\ req.method = "OPTIONS"
    /\ req.body.kind = "object"
    /\ Truthy(req.body.json, "applicationId") /\ Truthy(req.body.json, "videoPath")
    /\ Responded /\ resp.body = <<>>

FailureAt(k) ==
    LET e == hlog[k] IN
    CASE e.op = "json" ->
            IF e.arg.kind = "object"
            THEN ~Truthy(e.arg.json, "applicationId") \/ ~Truthy(e.arg.json, "videoPath")
            ELSE TRUE
      [] e.op = "downloadDone" -> e.arg.error # NoError \/ e.arg.data = NoData
      [] e.op = "transcribeDone" ->
            IF e.arg.kind = "rejected" THEN TRUE
            ELSE IF ~e.arg.ok THEN TRUE
            ELSE ~Truthy(e.arg.json, "text")
      [] e.op = "completeDone" ->
            IF e.arg.kind = "throws" THEN TRUE ELSE Len(e.arg.choices) = 0
      [] e.op = "updateDone" -> e.arg # NoError
      [] OTHER -> FALSE

\* C8: in a non-pre-flight invocation the first failing step (unparseable
\* body, missing applicationId or videoPath, download error or no data,
\* failed or non-success transcription, missing transcript, failed
\* completion, table write error) ends the workflow: no call and no result
\* of a later step follows it, and the invocation ends with exactly one
\* response, of status 500 and body { error: string }.
C8_FirstFailureShortCircuits ==
    /\ Count(hlog, "respond") <= 1
    /\ \A k \in 1..Len(hlog) :
          FailureAt(k) =>
             /\ Responded
             /\ Count(hlog, "respond") = 1
             /\ hlog[Len(hlog)] = Ev("respond", resp)
             /\ resp.status = 500
             /\ IsErrorBody(resp.body)
             /\ \A j \in (k + 1)..Len(hlog) : hlog[j].op \notin (CallOps \cup DoneOps)

\* the last step, the table write, failed after every earlier step succeeded
C8_Witness ==
    /\ Seen("updateDone") /\ ArgOf("updateDone") # NoError
    /\ Responded /\ resp.status = 500 /\ IsErrorBody(resp.body)
    /\ Count(hlog, "respond") = 1

\* C9: every response the handler produces (pre-flight, 200 success, 500
\* from any failure point) carries the configured Access-Control-Allow-Origin
\* and Access-Control-Allow-Headers values.
C9_CorsOnEveryResponse ==
    /\ resp # NoResponse => HasCors(resp.headers)
    /\ \A k \in 1..Len(hlog) : hlog[k].op = "respond" => HasCors(hlog[k].arg.headers)
    /\ Responded => (resp # NoResponse /\ Seen("respond"))

\* a 500 answer to a non-success transcription response, with the headers
C9_Witness ==
    /\ Seen("transcribeDone")
    /\ ArgOf("transcribeDone").kind = "http" /\ ~ArgOf("transcribeDone").ok
    /\ Responded /\ resp.status = 500 /\ HasCors(resp.headers)

====
